---- MODULE Spec2Model ----
(***************************************************************************)
(* InvoiceParser (src/pdf_parser.py): the extraction engine that turns the *)
(* page text and the tables of a warehouse invoice into header fields,     *)
(* line items and totals.                                                  *)
(*                                                                         *)
(* Text is a sequence of symbols.  A symbol is one character ("1", ".",    *)
(* ",", " ", "-", ...) or one whole word of the invoice layout, written in *)
(* Latin letters because a string of the module holds ASCII only:          *)
(*   "Hranenie" Хранение   "tovarov" товаров   "ot" от   "do" до            *)
(*   "m3" м³   "RUB" ₽   "Priemka" Приемка   "tovara" товара   "na" на      *)
(*   "sklad" склад   "i" и   "razmeschenie" размещение   "sht." шт.         *)
(*   "Otgruzka" Отгрузка   "FBO" FBO   "Itogo" Итого   "k" к                *)
(*   "oplate:" оплате:   "V" В   "tom" том   "chisle" числе   "NDS:" НДС:   *)
(*   "Vsego" Всего   "naimenovanij" наименований   "summu" сумму            *)
(*   "Detalizaciya" Детализация   "schetu" счету   "No" №                   *)
(*   "Ispolnitel:" Исполнитель:   "INN" ИНН   "Zakazchik:" Заказчик:        *)
(*   "Adres:" Адрес:   "tel." тел.   "Naimenovanie" Наименование            *)
(*   "sup2" ² (str.isdigit() accepts it, int() and \d do not)               *)
(* A literal of the source is the sequence of its words and spaces.        *)
(***************************************************************************)
EXTENDS FiniteSets, Integers, Sequences, TLC

VARIABLES
  doc,        \* the document behind pdf_path: a sequence of pages
  pc,         \* where the parser instance is: idle, pages, header, items, totals, done, raised;
              \* _parse_number: number_call, number_done; parse_pdf: handler, finally, returned
  data,       \* self.data
  handles,    \* number of document handles that are open
  full_text,  \* the local full_text of parse()
  page,       \* index of the page the loop of parse() is at
  idx,        \* index of the line the running scan is at
  calls,      \* number of parse() calls started on this instance
  error,      \* what the last parse() call raised: "none", "open" (the document could
              \* not be opened), "extract" (a page could not be read), "ValueError"
  returned,   \* what each completed parse() call returned, as seen at its return
  arg,        \* _parse_number: the value it is applied to
  ret,        \* _parse_number: what it returned (0 before the call)
  request,    \* parse_pdf: the request it handles ("none" outside a request)
  tmp,        \* parse_pdf: the temporary file: "absent", "partial" (left by a save
              \* that failed), "saved", "kept" (os.remove raised OSError)
  response    \* parse_pdf: the response it returned ("none" before)

vars ==
  <<doc, pc, data, handles, full_text, page, idx, calls, error, returned, arg, ret,
    request, tmp, response>>

(* Bounds of the model *)

\* how many parse() calls an instance gets
MaxCalls == 2
\* pages of a document
MaxPages == 2
\* text lines plus table rows of a document
MaxParts == 2
\* length of a string given to _parse_number as it comes
MaxLen == 3
\* groups of three digits of a number given to _parse_number
MaxGroups == 1

----------------------------------------------------------------------------
(* Strings *)

\* None, which no text equals
None == <<"<None>">>

WS == {" ", "\t", "\n"}

Digits == {"0", "1", "2", "3", "4", "5", "6", "7", "8", "9"}

\* str.isdigit(): the decimal digits and the other digit characters, such as ².
IsDigitChars == Digits \cup {"sup2"}

Max(S) == CHOOSE x \in S : \A y \in S : y <= x
Min(S) == CHOOSE x \in S : \A y \in S : x <= y

\* str.strip()
Strip(s) ==
  LET keep == {p \in 1..Len(s) : s[p] \notin WS}
  IN IF keep = {} THEN <<>> ELSE SubSeq(s, Min(keep), Max(keep))

\* sub in s
Contains(s, sub) ==
  \E p \in 1..(Len(s) - Len(sub) + 1) : SubSeq(s, p, p + Len(sub) - 1) = sub

\* s.replace(a, b) for single characters
Replace(s, a, b) == [p \in 1..Len(s) |-> IF s[p] = a THEN b ELSE s[p]]

\* a removal that leaves the whitespace in
RemoveKeepSpace(s, cls) == LET kept(x) == x \notin cls \ WS IN SelectSeq(s, kept)

\* re.sub(r'[...]', '', s): s without the characters of cls
Remove(s, cls) == LET kept(x) == x \notin cls IN SelectSeq(s, kept)

\* text.split('\n'): one more piece than there are newlines
Split(s) ==
  LET nl == {p \in 1..Len(s) : s[p] = "\n"}
      nth(j) == CHOOSE p \in nl : Cardinality({q \in nl : q < p}) = j - 1
      n == Cardinality(nl)
  IN [j \in 1..(n + 1) |->
        SubSeq(s, IF j = 1 THEN 1 ELSE nth(j - 1) + 1, IF j = n + 1 THEN Len(s) ELSE nth(j) - 1)]

\* str.isdigit()
IsDigit(s) == Len(s) > 0 /\ \A p \in 1..Len(s) : s[p] \in IsDigitChars

----------------------------------------------------------------------------
(* Regular expressions.  A pattern of the source is a sequence of elements,  *)
(* each a literal or a repetition, with a capture group around some.  An    *)
(* element is matched at a position with one of the lengths it allows;      *)
(* Python's backtracking takes the first length, in its order of trying     *)
(* (greedy: longest first, lazy: shortest first), with which the rest of    *)
(* the pattern matches, and re.search the leftmost start.                   *)

\* a literal
LitE(w) == [k |-> "lit", w |-> w, c |-> {}, neg |-> FALSE, min |-> 0, greedy |-> TRUE, g |-> 0]
\* [c]* or [c]+ (min = 0 or 1), in group g if g > 0
Rep(c, min, g) ==
  [k |-> "rep", w |-> <<>>, c |-> c, neg |-> FALSE, min |-> min, greedy |-> TRUE, g |-> g]
\* (.+?) in group g
LazyAny(g) ==
  [k |-> "rep", w |-> <<>>, c |-> {"\n"}, neg |-> TRUE, min |-> 1, greedy |-> FALSE, g |-> g]
\* ([^,]+(?:,[^,]+)*) in group g
Segs(g) ==
  [k |-> "segs", w |-> <<>>, c |-> {}, neg |-> FALSE, min |-> 1, greedy |-> TRUE, g |-> g]

Ws0 == Rep(WS, 0, 0)
Ws1 == Rep(WS, 1, 0)

\* the number of characters from pos on that are in the class
RunLen(e, s, pos) ==
  Max({k \in 0..(Len(s) - pos + 1) : \A j \in pos..(pos + k - 1) : (s[j] \in e.c) # e.neg})

\* [^,]+(?:,[^,]+)* matches t: no comma first, last, or next to another
SegsOK(t) ==
  /\ Len(t) > 0
  /\ t[1] # "," /\ t[Len(t)] # ","
  /\ \A j \in 1..(Len(t) - 1) : ~(t[j] = "," /\ t[j + 1] = ",")

\* the lengths with which element e matches s at pos
ElemLens(e, s, pos) ==
  CASE e.k = "lit" ->
         IF pos + Len(e.w) - 1 <= Len(s) /\ SubSeq(s, pos, pos + Len(e.w) - 1) = e.w
         THEN {Len(e.w)} ELSE {}
    [] e.k = "rep" -> e.min..RunLen(e, s, pos)
    [] e.k = "segs" -> {k \in 1..(Len(s) - pos + 1) : SegsOK(SubSeq(s, pos, pos + k - 1))}

NoMatch == [ok |-> FALSE, caps |-> <<>>]

\* R[k]: the match of the rest of the pattern after length k of element e
PickLen(e, pos, R) ==
  LET good == {k \in DOMAIN R : R[k].ok}
      k == IF e.greedy THEN Max(good) ELSE Min(good)
  IN IF good = {} THEN NoMatch
     ELSE [ok |-> TRUE,
           caps |-> IF e.g = 0 THEN R[k].caps
                    ELSE [x \in DOMAIN R[k].caps \cup {e.g} |->
                            IF x = e.g THEN <<pos, pos + k>> ELSE R[k].caps[x]]]

RECURSIVE MatchFrom(_, _, _, _)
MatchFrom(pat, n, s, pos) ==
  IF n > Len(pat) THEN [ok |-> TRUE, caps |-> <<>>]
  ELSE PickLen(pat[n], pos,
               [k \in ElemLens(pat[n], s, pos) |-> MatchFrom(pat, n + 1, s, pos + k)])

\* re.match(pat, s)
ReMatch(pat, s) == MatchFrom(pat, 1, s, 1)

FirstOf(R) ==
  LET good == {p \in DOMAIN R : R[p].ok}
  IN IF good = {} THEN NoMatch ELSE R[Min(good)]

\* re.search(pat, s)
ReSearch(pat, s) == FirstOf([p \in 1..(Len(s) + 1) |-> MatchFrom(pat, 1, s, p)])

\* m.group(g)
Grp(s, m, g) == SubSeq(s, m.caps[g][1], m.caps[g][2] - 1)

----------------------------------------------------------------------------
(* Numbers: a decimal m / 10^e with no trailing zero in its fraction, so    *)
(* that two decimals are equal exactly when their values are.               *)

DigitVal(c) ==
  CASE c = "0" -> 0 [] c = "1" -> 1 [] c = "2" -> 2 [] c = "3" -> 3 [] c = "4" -> 4
    [] c = "5" -> 5 [] c = "6" -> 6 [] c = "7" -> 7 [] c = "8" -> 8 [] c = "9" -> 9

RECURSIVE DigitsToInt(_)
DigitsToInt(s) ==
  IF Len(s) = 0 THEN 0
  ELSE 10 * DigitsToInt(SubSeq(s, 1, Len(s) - 1)) + DigitVal(s[Len(s)])

RECURSIVE Norm(_, _)
Norm(m, e) == IF e > 0 /\ m % 10 = 0 THEN Norm(m \div 10, e - 1) ELSE [m |-> m, e |-> e]

Zero == [m |-> 0, e |-> 0]

\* float(s) raises ValueError unless s is digits with at most one dot and at
\* least one digit
FloatRaises(s) ==
  \/ Cardinality({p \in 1..Len(s) : s[p] = "."}) > 1
  \/ \A p \in 1..Len(s) : s[p] = "."
  \/ \E p \in 1..Len(s) : s[p] \notin Digits \cup {"."}

\* float(s), where it does not raise
Float(s) ==
  LET dots == {p \in 1..Len(s) : s[p] = "."}
      d == IF dots = {} THEN Len(s) + 1 ELSE CHOOSE p \in dots : TRUE
      whole == SubSeq(s, 1, d - 1)
      frac == SubSeq(s, d + 1, Len(s))
  IN Norm(DigitsToInt(whole \o frac), Len(frac))

\* int(s) raises ValueError unless s is decimal digits
IntRaises(s) == Len(s) = 0 \/ \E p \in 1..Len(s) : s[p] \notin Digits

\* token.replace(',', '.'), the argument of float() in the text scans
Dotted(tok) == Replace(tok, ",", ".")

\* -1 for what is not a number, where the code has 0
_parse_number_sentinel(value) ==
  LET NotANumber == [m |-> -1, e |-> 0]
  IN IF value = None \/ value = <<>> THEN Zero
     ELSE LET str_value == Replace(Remove(Strip(value), {"RUB"} \cup WS), ",", ".")
              number_match == ReSearch(<<Rep(Digits \cup {"."}, 1, 1)>>, str_value)
          IN IF number_match.ok
             THEN LET run == Grp(str_value, number_match, 1)
                  IN IF FloatRaises(run) THEN NotANumber ELSE Float(run)
             ELSE NotANumber

\* _parse_number(value)
_parse_number(value) ==
  IF value = None \/ value = <<>> THEN Zero
  ELSE
    LET str_value == Replace(Remove(Strip(value), {"RUB"} \cup WS), ",", ".")
        number_match == ReSearch(<<Rep(Digits \cup {"."}, 1, 1)>>, str_value)
    IN IF number_match.ok
       THEN LET run == Grp(str_value, number_match, 1)
            IN IF FloatRaises(run) THEN Zero ELSE Float(run)
       ELSE Zero

----------------------------------------------------------------------------
(* The literals and patterns of the source *)

RECURSIVE Words(_)
Words(ws) == IF Len(ws) <= 1 THEN ws ELSE <<Head(ws), " ">> \o Words(Tail(ws))

DotDigits == Digits \cup {"."}
AmountChars == Digits \cup {".", ","}
Rub == LitE(<<"RUB">>)

M_invoice == Words(<<"Detalizaciya", "k", "schetu", "No">>)
M_company == <<"Ispolnitel:">>
M_customer == <<"Zakazchik:">>
M_storage == Words(<<"Hranenie", "tovarov", "ot">>)
M_reception == Words(<<"Priemka", "tovara", "na", "sklad">>)
M_shipment == Words(<<"Otgruzka", "FBO">>)
M_total == Words(<<"Itogo", "k", "oplate:">>)
M_vat == Words(<<"V", "tom", "chisle", "NDS:">>)
M_items == Words(<<"Vsego", "naimenovanij">>)
ReceptionText == Words(<<"Priemka", "tovara", "na", "sklad", "i", "razmeschenie">>)

\* r'№\s*([\d-]+)\s*от\s*([\d.]+)'
P_invoice ==
  <<LitE(<<"No">>), Ws0, Rep(Digits \cup {"-"}, 1, 1), Ws0, LitE(<<"ot">>), Ws0,
    Rep(DotDigits, 1, 2)>>

\* r'Исполнитель:\s*(.+?)\s*,\s*ИНН\s*(\d+)' and the same for Заказчик:
P_party(marker) ==
  <<LitE(marker), Ws0, LazyAny(1), Ws0, LitE(<<",">>), Ws0, LitE(<<"INN">>), Ws0,
    Rep(Digits, 1, 2)>>

\* r'Адрес:\s*([^,]+(?:,[^,]+)*)\s*,\s*тел\.\s*([\+\d\s\(\)-]+)'
P_address ==
  <<LitE(<<"Adres:">>), Ws0, Segs(1), Ws0, LitE(<<",">>), Ws0, LitE(<<"tel.">>), Ws0,
    Rep(Digits \cup WS \cup {"+", "(", ")", "-"}, 1, 2)>>

\* r'Хранение товаров от\s*([\d.]+)\s*до\s*([\d.]+)\s*([\d.,]+)\s*м³\s*([\d.,]+)\s*₽\s*([\d.,]+)\s*₽'
P_storage ==
  <<LitE(M_storage), Ws0, Rep(DotDigits, 1, 1), Ws0, LitE(<<"do">>), Ws0,
    Rep(DotDigits, 1, 2), Ws0, Rep(AmountChars, 1, 3), Ws0, LitE(<<"m3">>), Ws0,
    Rep(AmountChars, 1, 4), Ws0, Rub, Ws0, Rep(AmountChars, 1, 5), Ws0, Rub>>

\* r'Приемка товара на склад и размещение\s*(\d+)\s*шт\.\s*([\d.,]+)\s*₽\s*([\d.,]+)\s*₽'
P_reception ==
  <<LitE(ReceptionText), Ws0, Rep(Digits, 1, 1), Ws0, LitE(<<"sht.">>), Ws0,
    Rep(AmountChars, 1, 2), Ws0, Rub, Ws0, Rep(AmountChars, 1, 3), Ws0, Rub>>

\* r'Отгрузка FBO\s*(\d+)\s*от\s*([\d.]+)'
P_shipment ==
  <<LitE(M_shipment), Ws0, Rep(Digits, 1, 1), Ws0, LitE(<<"ot">>), Ws0, Rep(DotDigits, 1, 2)>>

\* r'Приемка\s+\d+\s+от'
P_reception_op_start == <<LitE(<<"Priemka">>), Ws1, Rep(Digits, 1, 0), Ws1, LitE(<<"ot">>)>>

\* r'Приемка\s+(\d+)\s+от\s+([\d.]+)'
P_reception_op ==
  <<LitE(<<"Priemka">>), Ws1, Rep(Digits, 1, 1), Ws1, LitE(<<"ot">>), Ws1, Rep(DotDigits, 1, 2)>>

\* r'Итого к оплате:\s*([\d.,]+)\s*₽' and the same for В том числе НДС:
P_amount_after(marker) == <<LitE(marker), Ws0, Rep(AmountChars, 1, 1), Ws0, Rub>>

\* r'Всего наименований\s*(\d+)\s*на сумму\s*([\d.,]+)\s*₽'
P_items ==
  <<LitE(M_items), Ws0, Rep(Digits, 1, 1), Ws0, LitE(Words(<<"na", "summu">>)), Ws0,
    Rep(AmountChars, 1, 2), Ws0, Rub>>

----------------------------------------------------------------------------
(* self.data *)

EmptyDict == [x \in {} |-> <<>>]

\* d[k] = v
SetKey(d, k, v) == [x \in DOMAIN d \cup {k} |-> IF x = k THEN v ELSE d[x]]

\* __init__
NewData ==
  [invoice_info |-> EmptyDict, company_info |-> EmptyDict, customer_info |-> EmptyDict,
   line_items |-> <<>>, totals |-> EmptyDict]

\* the item put in front of the list
PrependItem(items, item) == <<item>> \o items

\* an append that skips an item already in the list
AppendItemOnce(items, item) ==
  IF \E a \in 1..Len(items) : items[a] = item THEN items ELSE Append(items, item)

\* self.data['line_items'].append(item)
AppendItem(items, item) == Append(items, item)

----------------------------------------------------------------------------
(* _parse_header_info: the body of its loop, for one line *)

\* the invoice number and date
HeaderInvoice(d, line) ==
  LET invoice_match == ReSearch(P_invoice, line)
  IN IF Contains(line, M_invoice) /\ invoice_match.ok
     THEN [d EXCEPT !.invoice_info =
             SetKey(SetKey(@, "number", Grp(line, invoice_match, 1)),
                    "date", Grp(line, invoice_match, 2))]
     ELSE d

\* a setter that keeps the name and INN an earlier line has set
HeaderPartyFirst(d, line, marker, key) ==
  LET party_match == ReSearch(P_party(marker), line)
  IN IF Contains(line, marker) /\ party_match.ok /\ "name" \notin DOMAIN d[key]
     THEN [d EXCEPT ![key] =
             SetKey(SetKey(@, "name", Strip(Grp(line, party_match, 1))),
                    "inn", Grp(line, party_match, 2))]
     ELSE d

\* name and INN of the issuer (key = "company_info") or of the customer
HeaderParty(d, line, marker, key) ==
  LET party_match == ReSearch(P_party(marker), line)
  IN IF Contains(line, marker) /\ party_match.ok
     THEN [d EXCEPT ![key] =
             SetKey(SetKey(@, "name", Strip(Grp(line, party_match, 1))),
                    "inn", Grp(line, party_match, 2))]
     ELSE d

\* address and phone, looked for on a line that holds the customer marker
HeaderAddress(d, line) ==
  LET address_match == ReSearch(P_address, line)
  IN IF Contains(line, M_customer) /\ address_match.ok
     THEN [d EXCEPT !.customer_info =
             SetKey(SetKey(@, "address", Strip(Grp(line, address_match, 1))),
                    "phone", Strip(Grp(line, address_match, 2)))]
     ELSE d

HeaderLine(d, raw) ==
  LET line == Strip(raw)
  IN HeaderAddress(
       HeaderParty(
         HeaderParty(HeaderInvoice(d, line), line, M_company, "company_info"),
         line, M_customer, "customer_info"),
       line)

----------------------------------------------------------------------------
(* _parse_line_items: the body of its loop, for one line.  The result is    *)
(* the items to append (none or one) and whether a conversion raised.       *)

NoItem == [raised |-> FALSE, items |-> <<>>]
Raised == [raised |-> TRUE, items |-> <<>>]
OneItem(item) == [raised |-> FALSE, items |-> <<item>>]

StorageItem(line) ==
  LET storage_match == ReSearch(P_storage, line)
      g(n) == Grp(line, storage_match, n)
  IN IF ~storage_match.ok THEN NoItem
     ELSE IF \E n \in {3, 4, 5} : FloatRaises(Dotted(g(n))) THEN Raised
     ELSE OneItem([type |-> "storage",
                   description |-> M_storage \o <<" ">> \o g(1) \o <<" ", "do", " ">> \o g(2),
                   from_date |-> g(1), to_date |-> g(2),
                   quantity |-> Float(Dotted(g(3))), unit |-> <<"m3">>,
                   price_per_unit |-> Float(Dotted(g(4))),
                   total_amount |-> Float(Dotted(g(5)))])

ReceptionItem(line) ==
  LET reception_match == ReSearch(P_reception, line)
      g(n) == Grp(line, reception_match, n)
  IN IF ~reception_match.ok THEN NoItem
     ELSE IF IntRaises(g(1)) \/ \E n \in {2, 3} : FloatRaises(Dotted(g(n))) THEN Raised
     ELSE OneItem([type |-> "reception",
                   description |-> ReceptionText,
                   quantity |-> DigitsToInt(g(1)), unit |-> <<"sht.">>,
                   price_per_unit |-> Float(Dotted(g(2))),
                   total_amount |-> Float(Dotted(g(3)))])

ShipmentItem(line) ==
  LET shipment_match == ReSearch(P_shipment, line)
      g(n) == Grp(line, shipment_match, n)
  IN IF ~shipment_match.ok THEN NoItem
     ELSE OneItem([type |-> "shipment",
                   description |-> M_shipment \o <<" ">> \o g(1),
                   fbo_number |-> g(1), date |-> g(2), total_amount |-> Zero])

ReceptionOpItem(line) ==
  LET reception_match == ReSearch(P_reception_op, line)
      g(n) == Grp(line, reception_match, n)
  IN IF ~reception_match.ok THEN NoItem
     ELSE OneItem([type |-> "reception_operation",
                   description |-> <<"Priemka", " ">> \o g(1),
                   reception_number |-> g(1), date |-> g(2), total_amount |-> Zero])

\* four separate ifs instead of the chain: a line whose earlier pattern fails
\* falls through to the later ones
LineItemsLineFallThrough(raw) ==
  LET line == Strip(raw)
      storage == IF Contains(line, M_storage) THEN StorageItem(line) ELSE NoItem
      reception == IF Contains(line, M_reception) THEN ReceptionItem(line) ELSE NoItem
      shipment == IF Contains(line, M_shipment) THEN ShipmentItem(line) ELSE NoItem
      operation == IF ReMatch(P_reception_op_start, line).ok THEN ReceptionOpItem(line)
                   ELSE NoItem
  IN IF storage # NoItem THEN storage
     ELSE IF reception # NoItem THEN reception
     ELSE IF shipment # NoItem THEN shipment
     ELSE operation

\* the if / elif chain
LineItemsLine(raw) ==
  LET line == Strip(raw)
  IN IF Contains(line, M_storage) THEN StorageItem(line)
     ELSE IF Contains(line, M_reception) THEN ReceptionItem(line)
     ELSE IF Contains(line, M_shipment) THEN ShipmentItem(line)
     ELSE IF ReMatch(P_reception_op_start, line).ok THEN ReceptionOpItem(line)
     ELSE NoItem

----------------------------------------------------------------------------
(* _parse_totals: the body of its loop, for one line.  The result is the    *)
(* totals dict after the line and whether a conversion raised.              *)

TotalsAmount(totals, line, marker, key) ==
  LET m == ReSearch(P_amount_after(marker), line)
  IN IF ~m.ok THEN [raised |-> FALSE, totals |-> totals]
     ELSE IF FloatRaises(Dotted(Grp(line, m, 1))) THEN [raised |-> TRUE, totals |-> totals]
     ELSE [raised |-> FALSE, totals |-> SetKey(totals, key, Float(Dotted(Grp(line, m, 1))))]

\* total_items is set before the conversion of total_sum can raise
TotalsItems(totals, line) ==
  LET items_match == ReSearch(P_items, line)
      withCount == SetKey(totals, "total_items", DigitsToInt(Grp(line, items_match, 1)))
  IN IF ~items_match.ok THEN [raised |-> FALSE, totals |-> totals]
     ELSE IF FloatRaises(Dotted(Grp(line, items_match, 2)))
     THEN [raised |-> TRUE, totals |-> withCount]
     ELSE [raised |-> FALSE,
           totals |-> SetKey(withCount, "total_sum", Float(Dotted(Grp(line, items_match, 2))))]

\* the if / elif chain
TotalsLine(totals, raw) ==
  LET line == Strip(raw)
  IN IF Contains(line, M_total) THEN TotalsAmount(totals, line, M_total, "total_amount")
     ELSE IF Contains(line, M_vat) THEN TotalsAmount(totals, line, M_vat, "vat_amount")
     ELSE IF Contains(line, M_items) THEN TotalsItems(totals, line)
     ELSE [raised |-> FALSE, totals |-> totals]

----------------------------------------------------------------------------
(* _parse_tables *)

\* the least number of cells of a row that is looked at
MinCells == 5

\* str(cell or '')
StrOr(cell) == IF cell = None THEN <<>> ELSE cell

\* any(header in str(row[0] or '') for header in ['№', 'Наименование'])
IsHeaderRow(row) ==
  \E header \in {<<"No">>, <<"Naimenovanie">>} : Contains(StrOr(row[1]), header)

\* the item built from a row that passed the checks on its first cell
TableItem(row) ==
  [row_number |-> DigitsToInt(row[1]),
   description |-> Strip(StrOr(row[2])),
   quantity |-> IF Len(row) > 2 THEN _parse_number(row[3]) ELSE Zero,
   unit |-> IF Len(row) > 3 THEN Strip(StrOr(row[4])) ELSE <<>>,
   price_per_unit |-> IF Len(row) > 4 THEN _parse_number(row[5]) ELSE Zero,
   total_amount |-> IF Len(row) > 5 THEN _parse_number(row[6]) ELSE Zero,
   type |-> "table_item"]

\* the condition without its test of the description
MeaningfulAmount(item) == item.total_amount.m > 0

\* the condition without its test of the amount
MeaningfulDescription(item) == Len(item.description) > 0

\* item['description'] and item['total_amount'] > 0
Meaningful(item) == Len(item.description) > 0 /\ item.total_amount.m > 0

\* the items one row adds: none or one
RowItems(row) ==
  IF Len(row) < MinCells THEN <<>>
  ELSE IF IsHeaderRow(row) THEN <<>>
  ELSE IF row[1] = None \/ ~IsDigit(row[1]) THEN <<>>
  ELSE IF IntRaises(row[1]) THEN <<>>
  ELSE IF Meaningful(TableItem(row)) THEN <<TableItem(row)>>
  ELSE <<>>

RECURSIVE TableRows(_, _)
TableRows(items, table) ==
  IF Len(table) = 0 THEN items
  ELSE LET new == RowItems(Head(table))
       IN TableRows(IF Len(new) = 0 THEN items ELSE AppendItem(items, new[1]), Tail(table))

RECURSIVE _parse_tables(_, _)
_parse_tables(items, tables) ==
  IF Len(tables) = 0 THEN items
  ELSE _parse_tables(TableRows(items, Head(tables)), Tail(tables))

----------------------------------------------------------------------------
(* parse(): the parser instance as a state machine *)

\* leaving the block without closing the handle
WithExitLeak(h) == h

\* pdf.__exit__ of the with statement, on the count of open handles
WithExit(h) == h - 1

\* page.extract_text() and page.extract_tables() of the page the loop is at
PageText == doc[page].text
PageTables == doc[page].tables

\* full_text after the text of the page was read
WithPageText == IF Len(PageText) > 0 THEN full_text \o PageText \o <<"\n">> ELSE full_text

\* the lines the three scans go through
Lines == Split(full_text)

\* pdfplumber.open(self.pdf_path) succeeds: the with block is entered
ParseOpen ==
  /\ pc \in {"idle", "done", "raised"}
  /\ calls < MaxCalls
  /\ calls' = calls + 1
  /\ handles' = handles + 1
  /\ full_text' = <<>>
  /\ page' = 1
  /\ error' = "none"
  /\ pc' = "pages"
  /\ UNCHANGED <<doc, data, idx, returned, arg, ret,
               request, tmp, response>>

\* pdfplumber.open raises: the document cannot be opened
OpenFails ==
  /\ pc \in {"idle", "done", "raised"}
  /\ calls < MaxCalls
  /\ calls' = calls + 1
  /\ error' = "open"
  /\ pc' = "raised"
  /\ UNCHANGED <<doc, data, handles, full_text, page, idx, returned, arg, ret,
               request, tmp, response>>

\* one turn of the loop over pdf.pages
PageStep ==
  /\ pc = "pages"
  /\ page <= Len(doc)
  /\ full_text' = WithPageText
  /\ data' = IF Len(PageTables) > 0
             THEN [data EXCEPT !.line_items = _parse_tables(@, PageTables)]
             ELSE data
  /\ page' = page + 1
  /\ UNCHANGED <<doc, pc, handles, idx, calls, error, returned, arg, ret,
               request, tmp, response>>

\* extract_text or extract_tables of the page raises: the with statement
\* closes the handle and the exception leaves parse(), whose locals are gone
ExtractRaises ==
  /\ pc = "pages"
  /\ page <= Len(doc)
  /\ handles' = WithExit(handles)
  /\ error' = "extract"
  /\ pc' = "raised"
  /\ full_text' = <<>>
  /\ page' = 0
  /\ UNCHANGED <<doc, data, idx, calls, returned, arg, ret,
               request, tmp, response>>

\* the loop is over: the with block is left and the handle closed
PagesDone ==
  /\ pc = "pages"
  /\ page > Len(doc)
  /\ handles' = WithExit(handles)
  /\ idx' = 1
  /\ pc' = "header"
  /\ UNCHANGED <<doc, data, full_text, page, calls, error, returned, arg, ret,
               request, tmp, response>>

\* _parse_header_info(full_text), a line at a time
HeaderStep ==
  /\ pc = "header"
  /\ IF idx <= Len(Lines)
     THEN /\ data' = HeaderLine(data, Lines[idx])
          /\ idx' = idx + 1
          /\ pc' = pc
     ELSE /\ data' = data
          /\ idx' = 1
          /\ pc' = "items"
  /\ UNCHANGED <<doc, handles, full_text, page, calls, error, returned, arg, ret,
               request, tmp, response>>

\* _parse_line_items(full_text), a line at a time; a ValueError of a
\* conversion leaves parse()
ItemsStep ==
  /\ pc = "items"
  /\ IF idx <= Len(Lines)
     THEN \E r \in {LineItemsLine(Lines[idx])} :
             /\ data' = IF Len(r.items) > 0
                        THEN [data EXCEPT !.line_items = AppendItem(@, r.items[1])]
                        ELSE data
             /\ idx' = IF r.raised THEN 0 ELSE idx + 1
             /\ pc' = IF r.raised THEN "raised" ELSE pc
             /\ error' = IF r.raised THEN "ValueError" ELSE error
             /\ full_text' = IF r.raised THEN <<>> ELSE full_text
             /\ page' = IF r.raised THEN 0 ELSE page
     ELSE /\ data' = data
          /\ idx' = 1
          /\ pc' = "totals"
          /\ error' = error
          /\ full_text' = full_text
          /\ page' = page
  /\ UNCHANGED <<doc, handles, calls, returned, arg, ret,
               request, tmp, response>>

\* _parse_totals(full_text), a line at a time, and return self.data
TotalsStep ==
  /\ pc = "totals"
  /\ IF idx <= Len(Lines)
     THEN \E r \in {TotalsLine(data.totals, Lines[idx])} :
             /\ data' = [data EXCEPT !.totals = r.totals]
             /\ idx' = IF r.raised THEN 0 ELSE idx + 1
             /\ pc' = IF r.raised THEN "raised" ELSE pc
             /\ error' = IF r.raised THEN "ValueError" ELSE error
             /\ full_text' = IF r.raised THEN <<>> ELSE full_text
             /\ page' = IF r.raised THEN 0 ELSE page
             /\ returned' = returned
     ELSE /\ data' = data
          /\ idx' = 0
          /\ pc' = "done"
          /\ error' = error
          /\ full_text' = <<>>
          /\ page' = 0
          /\ returned' = Append(returned, data)
  /\ UNCHANGED <<doc, handles, calls, arg, ret,
               request, tmp, response>>

\* one call of _parse_number, which has no way out but its return
ParseNumberCall ==
  /\ pc = "number_call"
  /\ ret' = _parse_number(arg)
  /\ pc' = "number_done"
  /\ UNCHANGED <<doc, data, handles, full_text, page, idx, calls, error, returned, arg,
               request, tmp, response>>

NextNumber == ParseNumberCall

Next ==
  \/ ParseOpen
  \/ OpenFails
  \/ PageStep
  \/ ExtractRaises
  \/ PagesDone
  \/ HeaderStep
  \/ ItemsStep
  \/ TotalsStep

----------------------------------------------------------------------------
(* parse_pdf of app.py: one request to /api/v1/parse.  The handler saves the *)
(* upload to a temporary file, makes an InvoiceParser on it, calls parse()   *)
(* once and answers; the parse() in the middle is the state machine above.   *)

\* the requests: too large a body, no file field, an empty file name, a name
\* that does not end in .pdf, and an upload the handler accepts
Requests == {"too_large", "no_file", "no_name", "bad_type", "pdf"}

\* the error envelope of a request that is turned down before anything is saved
Rejection(req) ==
  CASE req = "too_large" -> "413 File too large"
    [] req = "no_file" -> "400 No file provided"
    [] req = "no_name" -> "400 No file selected"
    [] req = "bad_type" -> "400 Invalid file type"

\* lines 75-86 and 130-131: the request is answered without a file being saved
RejectRequest ==
  /\ pc = "handler"
  /\ request # "pdf"
  /\ response' = Rejection(request)
  /\ pc' = "returned"
  /\ UNCHANGED <<doc, data, handles, full_text, page, idx, calls, error, returned, arg, ret,
                 request, tmp>>

\* file.save(file_path) succeeds, and InvoiceParser(file_path) is constructed
SaveUpload ==
  /\ pc = "handler"
  /\ request = "pdf"
  /\ tmp' = "saved"
  /\ pc' = "idle"
  /\ UNCHANGED <<doc, data, handles, full_text, page, idx, calls, error, returned, arg, ret,
                 request, response>>

\* file.save(file_path) raises, before the file exists or with a part of it
\* written: the statement is outside the inner try, so the handler of line 132
\* answers and the finally block is not run
SaveFails ==
  /\ pc = "handler"
  /\ request = "pdf"
  /\ tmp' \in {"absent", "partial"}
  /\ response' = "500 Internal server error"
  /\ pc' = "returned"
  /\ UNCHANGED <<doc, data, handles, full_text, page, idx, calls, error, returned, arg, ret,
                 request>>

\* parser.parse() returned: the success envelope is built (lines 103-115)
RespondSuccess ==
  /\ request = "pdf"
  /\ pc = "done"
  /\ response' = "200 PDF parsed successfully"
  /\ pc' = "finally"
  /\ UNCHANGED <<doc, data, handles, full_text, page, idx, calls, error, returned, arg, ret,
                 request, tmp>>

\* parser.parse() raised: except Exception as parsing_error (lines 117-119)
RespondParsingError ==
  /\ request = "pdf"
  /\ pc = "raised"
  /\ response' = "500 Error parsing PDF"
  /\ pc' = "finally"
  /\ UNCHANGED <<doc, data, handles, full_text, page, idx, calls, error, returned, arg, ret,
                 request, tmp>>

\* the finally block: os.remove(file_path) of a file that exists
CleanUp ==
  /\ pc = "finally"
  /\ tmp' = "absent"
  /\ pc' = "returned"
  /\ UNCHANGED <<doc, data, handles, full_text, page, idx, calls, error, returned, arg, ret,
                 request, response>>

\* the finally block: os.remove raises OSError, which is logged and dropped
CleanUpFails ==
  /\ pc = "finally"
  /\ tmp # "absent"
  /\ tmp' = "kept"
  /\ pc' = "returned"
  /\ UNCHANGED <<doc, data, handles, full_text, page, idx, calls, error, returned, arg, ret,
                 request, response>>

\* parser.parse() is called once on the parser of the request
ParseOnce == calls = 0 /\ (ParseOpen \/ OpenFails)

NextApp ==
  \/ RejectRequest
  \/ SaveUpload
  \/ SaveFails
  \/ ParseOnce
  \/ PageStep
  \/ ExtractRaises
  \/ PagesDone
  \/ HeaderStep
  \/ ItemsStep
  \/ TotalsStep
  \/ RespondSuccess
  \/ RespondParsingError
  \/ CleanUp
  \/ CleanUpFails

----------------------------------------------------------------------------
(* Documents *)

Sp == <<" ">>
Date1 == <<"1", ".", "1">>
Date2 == <<"3", ".", "1">>

\* Хранение товаров от 1.1 до 3.1 2,5 м³ 10 ₽ <total> ₽
StorageLine(total) ==
  M_storage \o Sp \o Date1 \o Sp \o <<"do">> \o Sp \o Date2 \o Sp \o <<"2", ",", "5">> \o Sp
    \o <<"m3">> \o Sp \o <<"1", "0">> \o Sp \o <<"RUB">> \o Sp \o total \o Sp \o <<"RUB">>

L_storage == StorageLine(<<"2", "5">>)
\* an amount with two separators: 1.2,5
L_storage_bad == StorageLine(<<"1", ".", "2", ",", "5">>)

\* ["1", "Погрузка", "3", "шт.", "50,00", <total>]
Row(total) ==
  <<<<"1">>, <<"Pogruzka">>, <<"3">>, <<"sht.">>, <<"5", "0", ",", "0", "0">>, total>>

R_ok == Row(<<"1", "5", "0", ",", "0", "0">>)
R_zero == Row(<<"0">>)

MixedLines == {L_storage, L_storage_bad}
MixedRows == {R_ok, R_zero}

SeqsUpTo(C, m) == UNION {[1..k -> C] : k \in 0..m}

\* the ways to put k things, in order, on n pages
Placements(k, n) == {f \in [1..k -> 1..n] : \A a, b \in 1..k : a <= b => f[a] <= f[b]}

\* the things of xs put on page p
OnPage(xs, f, p) ==
  LET ids == {a \in 1..Len(xs) : f[a] = p}
  IN IF ids = {} THEN <<>> ELSE SubSeq(xs, Min(ids), Max(ids))

RECURSIVE JoinLines(_)
JoinLines(ls) ==
  IF Len(ls) = 0 THEN <<>>
  ELSE IF Len(ls) = 1 THEN ls[1]
  ELSE ls[1] \o <<"\n">> \o JoinLines(Tail(ls))

\* the rows of a page as one table, or as one table a row
AsTables(rows, split) ==
  IF Len(rows) = 0 THEN <<>>
  ELSE IF split THEN [a \in 1..Len(rows) |-> <<rows[a]>>]
  ELSE <<rows>>

MkDoc(n, ls, lf, rs, rf, split) ==
  [p \in 1..n |-> [text |-> JoinLines(OnPage(ls, lf, p)),
                   tables |-> AsTables(OnPage(rs, rf, p), split)]]

\* the documents of at most pages pages with ls as lines and rs as rows
DocsFrom(pages, lineSeqs, rowSeqs) ==
  UNION {UNION {{MkDoc(n, ls, lf, rs, rf, split) :
                   lf \in Placements(Len(ls), n), rf \in Placements(Len(rs), n),
                   split \in BOOLEAN} :
                ls \in lineSeqs, rs \in rowSeqs} :
         n \in 1..pages}

\* Lines for the scan for text-mode items
Fbo == M_shipment \o Sp \o <<"1", "2">> \o Sp \o <<"ot">> \o Sp \o Date1
Op == <<"Priemka">> \o Sp \o <<"7">> \o Sp \o <<"ot">> \o Sp \o Date2

\* Приемка товара на склад и размещение 5 шт. 10 ₽ 50 ₽
L_reception ==
  ReceptionText \o Sp \o <<"5">> \o Sp \o <<"sht.">> \o Sp \o <<"1", "0">> \o Sp \o <<"RUB">>
    \o Sp \o <<"5", "0">> \o Sp \o <<"RUB">>
\* Отгрузка FBO 12 от 1.1
L_shipment == Fbo
\* Приемка 7 от 3.1
L_operation == Op
\* the storage marker without its fields, then a whole shipment
L_storage_then_shipment == M_storage \o Sp \o Fbo
\* the reception marker without its fields, then a whole shipment
L_reception_then_shipment == M_reception \o Sp \o Fbo
\* a whole reception-by-number, then the shipment marker without its fields
L_operation_then_shipment == Op \o Sp \o M_shipment
\* a whole shipment, then a whole storage charge
L_shipment_then_storage == Fbo \o Sp \o L_storage
\* a reception-by-number that is not at the start of the line
L_operation_inside == <<"x">> \o Sp \o Op

ItemFamily ==
  {L_storage, L_storage_bad, L_reception, L_shipment, L_operation,
   L_storage_then_shipment, L_reception_then_shipment, L_operation_then_shipment,
   L_shipment_then_storage, L_operation_inside}

\* Rows for the scan of the tables: <<cell 0, cell 1, total>> in a row of six
\* cells, and rows of other lengths
Row6(first, description, total) ==
  <<first, description, <<"3">>, <<"sht.">>, <<"5", "0", ",", "0", "0">>, total>>

Total150 == <<"1", "5", "0", ",", "0", "0">>
R_five == SubSeq(R_ok, 1, 5)
R_four == SubSeq(R_ok, 1, 4)
R_seven == Append(R_ok, <<"x">>)
R_header == Row6(<<"No">>, <<"Naimenovanie">>, Total150)
R_numbered_header == Row6(<<"1", "No">>, <<"Pogruzka">>, Total150)
R_text_first == Row6(<<"x">>, <<"Pogruzka">>, Total150)
R_no_first == Row6(None, <<"Pogruzka">>, Total150)
R_superscript == Row6(<<"sup2">>, <<"Pogruzka">>, Total150)
R_blank_description == Row6(<<"2">>, <<" ">>, Total150)
R_no_description == Row6(<<"2">>, None, Total150)
R_no_total == Row6(<<"2">>, <<"Pogruzka">>, None)
R_text_total == Row6(<<"2">>, <<"Pogruzka">>, <<"x">>)
R_grouped_total == Row6(<<"1", "2">>, <<" ", "Pogruzka">>, <<"1", " ", "2", "3", "4", ",", "5", " ", "RUB">>)

RowFamily ==
  {R_ok, R_zero, R_five, R_four, R_seven, R_header, R_numbered_header, R_text_first,
   R_no_first, R_superscript, R_blank_description, R_no_description, R_no_total,
   R_text_total, R_grouped_total}

\* Lines for the scan for the totals
Amount100 == <<"1", "0", "0">> \o Sp \o <<"RUB">>
Amount20 == <<"2", "0">> \o Sp \o <<"RUB">>

\* Итого к оплате: 100 ₽
L_total == M_total \o Sp \o Amount100
\* В том числе НДС: 20 ₽
L_vat == M_vat \o Sp \o Amount20
\* Всего наименований 3 на сумму 100 ₽
L_count == M_items \o Sp \o <<"3">> \o Sp \o Words(<<"na", "summu">>) \o Sp \o Amount100
\* two markers with their amounts on one line
L_total_and_vat == L_total \o Sp \o L_vat
L_vat_and_count == L_vat \o Sp \o L_count
\* the marker without an amount
L_total_bare == M_total \o Sp \o <<"RUB">>
L_total_bare_and_vat == L_total_bare \o Sp \o L_vat
\* an amount with two separators: 1.2,5
L_total_bad == M_total \o Sp \o <<"1", ".", "2", ",", "5">> \o Sp \o <<"RUB">>

TotalsFamily ==
  {L_total, L_vat, L_count, L_total_and_vat, L_vat_and_count, L_total_bare,
   L_total_bare_and_vat, L_total_bad}

\* Lines for the scan for the header
Party(marker, name, inn) == marker \o Sp \o name \o <<",">> \o Sp \o <<"INN">> \o Sp \o inn
Address(phone) ==
  <<"Adres:">> \o Sp \o <<"Moskva", ",", " ", "x", " ", "1", ",">> \o Sp \o <<"tel.">> \o Sp \o phone

\* Детализация к счету № 12-3 от 1.1
L_invoice == M_invoice \o Sp \o <<"1", "2", "-", "3">> \o Sp \o <<"ot">> \o Sp \o Date1
\* Детализация к счету № 7 от 3.1
L_invoice_other == M_invoice \o Sp \o <<"7">> \o Sp \o <<"ot">> \o Sp \o Date2
\* the marker without a number
L_invoice_bare == M_invoice \o Sp \o <<"x">>
\* Исполнитель: ООО Ромашка, ИНН 77
L_company == Party(M_company, <<"OOO", " ", "Romashka">>, <<"7", "7">>)
L_company_other == Party(M_company, <<"x">>, <<"5">>)
\* the marker and a name without the INN
L_company_bare == M_company \o Sp \o <<"OOO">>
\* Заказчик: Ромашка, ИНН 12, Адрес: Москва, x 1, тел. +7(9)1
L_customer ==
  Party(M_customer, <<"Romashka">>, <<"1", "2">>) \o <<",">> \o Sp
    \o Address(<<"+", "7", "(", "9", ")", "1">>)
\* name and INN only
L_customer_other == Party(M_customer, <<"x">>, <<"3">>)
\* address and phone only, after the marker
L_customer_address == M_customer \o Sp \o Address(<<"5", "-", "5">>)
\* the marker and a name without the INN
L_customer_bare == M_customer \o Sp \o <<"x">>
\* an address on a line without the marker of the customer
L_address_alone == Address(<<"9">>)

HeaderFamily ==
  {L_invoice, L_invoice_other, L_invoice_bare, L_company, L_company_other, L_company_bare,
   L_customer, L_customer_other, L_customer_address, L_customer_bare, L_address_alone}

\* a parser instance right after __init__
Constructed ==
  /\ pc = "idle"
  /\ data = NewData
  /\ handles = 0
  /\ full_text = <<>>
  /\ page = 0
  /\ idx = 0
  /\ calls = 0
  /\ error = "none"
  /\ returned = <<>>
  /\ arg = <<>>
  /\ ret = Zero
  /\ request = "none"
  /\ tmp = "absent"
  /\ response = "none"

\* documents with text and tables
Init ==
  /\ \E k \in 0..MaxParts :
       doc \in DocsFrom(MaxPages, SeqsUpTo(MixedLines, k), SeqsUpTo(MixedRows, MaxParts - k))
  /\ Constructed

Spec == Init /\ [][Next]_vars

\* documents of one page of text, with lines that hold the markers of the
\* text-mode items in all their combinations
InitItems ==
  /\ doc \in DocsFrom(1, SeqsUpTo(ItemFamily, MaxParts), {<<>>})
  /\ Constructed

SpecItems == InitItems /\ [][Next]_vars

\* documents of one page without text, with rows of every shape in one table
\* or in a table each
InitTables ==
  /\ doc \in DocsFrom(1, {<<>>}, SeqsUpTo(RowFamily, MaxParts))
  /\ Constructed

SpecTables == InitTables /\ [][Next]_vars

\* documents of one page of text, with lines that hold the markers of the
\* totals, alone and together
InitTotals ==
  /\ doc \in DocsFrom(1, SeqsUpTo(TotalsFamily, MaxParts), {<<>>})
  /\ Constructed

SpecTotals == InitTotals /\ [][Next]_vars

\* documents of one page of text, with lines that hold the markers of the
\* header, with and without the fields after them
InitHeader ==
  /\ doc \in DocsFrom(1, SeqsUpTo(HeaderFamily, MaxParts), {<<>>})
  /\ Constructed

SpecHeader == InitHeader /\ [][Next]_vars

\* documents of one page with lines of every kind of text-mode item and
\* rows that make a table_item or fail one of its conditions
KindRows == {R_ok, R_zero, R_five, R_blank_description, R_grouped_total}

InitKinds ==
  /\ \E k \in 0..MaxParts :
       doc \in DocsFrom(1, SeqsUpTo(ItemFamily, k), SeqsUpTo(KindRows, MaxParts - k))
  /\ Constructed

SpecKinds == InitKinds /\ [][Next]_vars

\* documents whose lines and rows make items that differ from one another,
\* spread over the pages and the tables
OrderLines == {L_storage, L_shipment, L_operation}
OrderRows == {R_ok, R_grouped_total, R_zero}

InitOrder ==
  /\ \E k \in 0..MaxParts :
       doc \in DocsFrom(MaxPages, SeqsUpTo(OrderLines, k), SeqsUpTo(OrderRows, MaxParts - k))
  /\ Constructed

SpecOrder == InitOrder /\ [][Next]_vars

\* a request arrives at parse_pdf; an upload holds a document with text and
\* tables
InitApp ==
  /\ request \in Requests
  /\ \E k \in 0..MaxParts :
       doc \in DocsFrom(MaxPages, SeqsUpTo(MixedLines, k), SeqsUpTo(MixedRows, MaxParts - k))
  /\ pc = "handler"
  /\ data = NewData
  /\ handles = 0
  /\ full_text = <<>>
  /\ page = 0
  /\ idx = 0
  /\ calls = 0
  /\ error = "none"
  /\ returned = <<>>
  /\ arg = <<>>
  /\ ret = Zero
  /\ tmp = "absent"
  /\ response = "none"

SpecApp == InitApp /\ [][NextApp]_vars

----------------------------------------------------------------------------
(* Values given to _parse_number *)

\* strings as they come
Alphabet == {"1", "0", ".", ",", " ", "RUB", "x", "-"}
ShortStrings == SeqsUpTo(Alphabet, MaxLen)

\* numbers written the Russian way: leading digits, groups of three digits
\* after a separator (none, a space or a dot), a comma and decimals, the
\* currency symbol
WrittenNumbers ==
  [head : {<<"1">>, <<"1", "2">>},
   groups : SeqsUpTo({<<"2", "3", "4">>, <<"0", "0", "0">>}, MaxGroups),
   sep : {<<>>, <<" ">>, <<".">>},
   decimals : {<<>>, <<"5">>, <<"5", "6">>},
   currency : {<<>>, <<"RUB">>, <<" ", "RUB">>}]

RECURSIVE Grouped(_, _)
Grouped(groups, sep) ==
  IF Len(groups) = 0 THEN <<>> ELSE sep \o Head(groups) \o Grouped(Tail(groups), sep)

\* the string of a written number
Written(w) ==
  w.head \o Grouped(w.groups, w.sep)
    \o (IF Len(w.decimals) > 0 THEN <<",">> \o w.decimals ELSE <<>>) \o w.currency

\* the number it stands for
ValueOf(w) == Norm(DigitsToInt(w.head \o Grouped(w.groups, <<>>) \o w.decimals), Len(w.decimals))

InitNumber ==
  /\ arg \in {None} \cup ShortStrings \cup {Written(w) : w \in WrittenNumbers}
  /\ pc = "number_call"
  /\ ret = Zero
  /\ doc = <<>>
  /\ data = NewData
  /\ handles = 0
  /\ full_text = <<>>
  /\ page = 0
  /\ idx = 0
  /\ calls = 0
  /\ error = "none"
  /\ returned = <<>>
  /\ request = "none"
  /\ tmp = "absent"
  /\ response = "none"

SpecNumber == InitNumber /\ [][NextNumber]_vars

----------------------------------------------------------------------------
(* What a document holds, read off the document itself *)

\* the text parse() builds from the pages of d
RECURSIVE TextOf(_)
TextOf(d) ==
  IF Len(d) = 0 THEN <<>>
  ELSE TextOf(SubSeq(d, 1, Len(d) - 1))
         \o (IF Len(d[Len(d)].text) > 0 THEN d[Len(d)].text \o <<"\n">> ELSE <<>>)

DocLines == Split(TextOf(doc))

\* the lines of the document that make a text-mode item
ItemLines == {a \in 1..Len(DocLines) : Len(LineItemsLine(DocLines[a]).items) > 0}

\* the rows of the document, each by page, table and place in the table
DocRows ==
  {<<p, b, c>> \in (1..Len(doc)) \X (1..MaxParts) \X (1..MaxParts) :
     b <= Len(doc[p].tables) /\ c <= Len(doc[p].tables[b])}

RowAt(r) == doc[r[1]].tables[r[2]][r[3]]

\* the rows of the document that make a table_item
ItemRows == {r \in DocRows : Len(RowItems(RowAt(r))) > 0}

----------------------------------------------------------------------------
(* Claims *)

\* C1: the core never fails on malformed content: whatever the lines and rows
\* of a document that could be opened and read, parse() raises nothing; a line
\* whose numeric token does not convert is left out of the result.
C1_NeverFailsOnContent == error # "ValueError"

\* C2: the result of a parse() call depends only on the document: every call on
\* the same instance and document returns the same header, line items and
\* totals, and no item of an earlier call is in a later result.
C2_SameResultEachCall ==
  \A a, b \in 1..Len(returned) : returned[a] = returned[b]

\* the kind of the first marker, in the order of the chain, that a line holds
FirstMarker(line) ==
  IF Contains(line, M_storage) THEN "storage"
  ELSE IF Contains(line, M_reception) THEN "reception"
  ELSE IF Contains(line, M_shipment) THEN "shipment"
  ELSE IF ReMatch(P_reception_op_start, line).ok THEN "reception_operation"
  ELSE "none"

\* the capture pattern of a kind matches on the line
Captures(kind, line) ==
  CASE kind = "storage" -> ReSearch(P_storage, line).ok
    [] kind = "reception" -> ReSearch(P_reception, line).ok
    [] kind = "shipment" -> ReSearch(P_shipment, line).ok
    [] kind = "reception_operation" -> ReSearch(P_reception_op, line).ok
    [] OTHER -> FALSE

\* C3: the four patterns are tried in the order storage, reception, shipment,
\* reception_operation and exclude one another: the step of the scan on a line
\* adds at most one item, the kind of an added item is that of the first
\* marker of the order that the line holds, and nothing is added when the
\* capture pattern of that first marker fails, whatever later patterns match.
C3_FirstMarkerDecides ==
  [][(pc = "items" /\ idx <= Len(Lines)) =>
       LET line == Strip(Lines[idx])
           old == data.line_items
           new == data'.line_items
       IN /\ Len(new) \in {Len(old), Len(old) + 1}
          /\ SubSeq(new, 1, Len(old)) = old
          /\ Len(new) > Len(old) => new[Len(new)].type = FirstMarker(line)
          /\ ~Captures(FirstMarker(line), line) => new = old]_vars

\* the scan has passed a line with the storage marker, whose pattern fails,
\* and a whole shipment: no item
C3_Witness ==
  /\ pc = "items" /\ idx = 2 /\ calls = 1
  /\ FirstMarker(Strip(Lines[1])) = "storage"
  /\ ~Captures("storage", Strip(Lines[1]))
  /\ Captures("shipment", Strip(Lines[1]))
  /\ data.line_items = <<>>

\* the conditions of a table_item, on the cells of the row
Qualifies(row) ==
  /\ Len(row) >= 5
  /\ row[1] # None
  /\ ~\E header \in {<<"No">>, <<"Naimenovanie">>} : Contains(row[1], header)
  /\ Len(row[1]) > 0 /\ \A a \in 1..Len(row[1]) : row[1][a] \in Digits
  /\ row[2] # None /\ Len(Strip(row[2])) > 0
  /\ Len(row) >= 6 /\ _parse_number(row[6]).m > 0

\* C4: a row makes a table_item exactly when it has at least 5 cells, its
\* first cell holds no header marker and is all decimal digits, its trimmed
\* description is not empty and its amount (the normalized cell 5, 0 without
\* that cell) is above 0; any other row adds nothing and the rows and tables
\* after it are still read: once the pages are read, the items are as many as
\* the rows of the document that meet the conditions, all of them table_items.
C4_RowsThatQualify ==
  (pc \in {"header", "items", "totals", "done"} /\ calls = 1) =>
    /\ Len(data.line_items) = Cardinality({r \in DocRows : Qualifies(RowAt(r))})
    /\ \A a \in 1..Len(data.line_items) : data.line_items[a].type = "table_item"

\* a row of exactly 5 cells was passed over and the row after it made an item
C4_Witness ==
  /\ pc = "header" /\ calls = 1
  /\ \E r, q \in DocRows :
       /\ r[1] = q[1] /\ (r[2] < q[2] \/ (r[2] = q[2] /\ r[3] < q[3]))
       /\ Len(RowAt(r)) = 5 /\ ~Qualifies(RowAt(r))
       /\ Qualifies(RowAt(q))
  /\ Len(data.line_items) = 1

\* some line of the document holds the marker and its capture pattern matches
SomeLineCaptures(marker, pattern) ==
  \E a \in 1..Len(DocLines) :
    Contains(Strip(DocLines[a]), marker) /\ ReSearch(pattern, Strip(DocLines[a])).ok

\* C5: the three markers of the totals are independent: a marker takes effect
\* whenever a line holds it and its capture pattern matches on that line,
\* whether or not the line holds another of the markers, and a marker whose
\* pattern matches on no line sets nothing: in the result of a parse() of a
\* fresh parser, a total is present exactly when some line captures it.
C5_MarkersIndependent ==
  (pc = "done" /\ calls = 1) =>
    /\ "total_amount" \in DOMAIN data.totals
          <=> SomeLineCaptures(M_total, P_amount_after(M_total))
    /\ "vat_amount" \in DOMAIN data.totals
          <=> SomeLineCaptures(M_vat, P_amount_after(M_vat))
    /\ {"total_items", "total_sum"} \subseteq DOMAIN data.totals
          <=> SomeLineCaptures(M_items, P_items)

\* the value without currency symbol and whitespace, commas turned to dots
Cleaned(value) ==
  LET kept(x) == x # "RUB" /\ x \notin WS
  IN [a \in 1..Len(SelectSeq(value, kept)) |->
        IF SelectSeq(value, kept)[a] = "," THEN "." ELSE SelectSeq(value, kept)[a]]

\* the run of digits and dots that starts at from, and the first run of s
RunFrom(s, from) ==
  LET stops == {b \in from..Len(s) : s[b] \notin Digits \cup {"."}}
  IN SubSeq(s, from, IF stops = {} THEN Len(s) ELSE Min(stops) - 1)
FirstRun(s) ==
  LET starts == {a \in 1..Len(s) : s[a] \in Digits \cup {"."}}
  IN IF starts = {} THEN <<>> ELSE RunFrom(s, Min(starts))
LeadingRun(s) == IF Len(s) = 0 THEN <<>> ELSE RunFrom(s, 1)

\* a run of digits and dots is a number: some digit, at most one dot
IsNumber(run) ==
  /\ \E a \in 1..Len(run) : run[a] \in Digits
  /\ Cardinality({a \in 1..Len(run) : run[a] = "."}) <= 1

C7_WrittenNumberValue ==
  pc = "number_done" =>
    \A w \in WrittenNumbers : arg = Written(w) => ret = ValueOf(w)

\* C7 as amended: the same for the numbers whose groups come after spaces or
\* after nothing; a dot between the groups is not covered.
C7_SpaceGroupedValue ==
  pc = "number_done" =>
    \A w \in WrittenNumbers :
      (arg = Written(w) /\ (w.sep # <<".">> \/ Len(w.groups) = 0)) => ret = ValueOf(w)

\* 1 234,56 ₽ gave 1234.56
C7_Witness ==
  /\ pc = "number_done"
  /\ arg = <<"1", " ", "2", "3", "4", ",", "5", "6", " ", "RUB">>
  /\ ret = [m |-> 123456, e |-> 2]

\* the lines among lines that hold the marker and on which the detailed
\* pattern matches
Hits(lines, marker, pattern) ==
  {a \in 1..Len(lines) :
     Contains(Strip(lines[a]), marker) /\ ReSearch(pattern, Strip(lines[a])).ok}

\* the two fields a pattern sets are what it captures, trimmed, on the last
\* line of the document where it hits, or absent when it hits on none
FieldsOfLastHit(info, marker, pattern, first, second) ==
  \E lines \in {DocLines} :
    \E hits \in {Hits(lines, marker, pattern)} :
      IF hits = {}
      THEN first \notin DOMAIN info /\ second \notin DOMAIN info
      ELSE \E line \in {Strip(lines[Max(hits)])} :
             \E m \in {ReSearch(pattern, line)} :
               /\ {first, second} \subseteq DOMAIN info
               /\ info[first] = Strip(Grp(line, m, 1))
               /\ info[second] = Strip(Grp(line, m, 2))

\* C9: the header is a forward scan in which the last match wins: after the
\* scan each pair of fields (invoice number and date, issuer name and INN,
\* customer name and INN, customer address and phone) holds what its pattern
\* captured on the last line that holds the marker and on which the pattern
\* matched; a line with the marker on which the pattern fails changes
\* nothing, and a pair with no such line is absent.  Stated of the header
\* right after its scan and of the header of the result parse() returns.
C9_LastMatchWins ==
  ((pc = "items" /\ idx = 1) \/ pc = "done") =>
    /\ FieldsOfLastHit(data.invoice_info, M_invoice, P_invoice, "number", "date")
    /\ FieldsOfLastHit(data.company_info, M_company, P_party(M_company), "name", "inn")
    /\ FieldsOfLastHit(data.customer_info, M_customer, P_party(M_customer), "name", "inn")
    /\ FieldsOfLastHit(data.customer_info, M_customer, P_address, "address", "phone")

\* two lines name the issuer differently and the name is that of the second
C9_Witness ==
  /\ pc = "items" /\ idx = 1 /\ calls = 1
  /\ Hits(DocLines, M_company, P_party(M_company)) = {1, 2}
  /\ data.company_info.name = <<"x">>
  /\ Strip(Grp(DocLines[1], ReSearch(P_party(M_company), DocLines[1]), 1)) # <<"x">>

\* C8: text-mode and table-mode items are concatenated, nothing is merged or
\* dropped as a duplicate: after one parse() of a fresh parser the number of
\* line items is the number of lines that make a text item plus the number of
\* rows that make a table_item.
C8_ItemsAreConcatenated ==
  (pc = "done" /\ calls = 1) =>
    Len(data.line_items) = Cardinality(ItemLines) + Cardinality(ItemRows)

\* one storage line and one qualifying row: two items
C8_Witness ==
  /\ pc = "done" /\ calls = 1
  /\ Cardinality(ItemLines) = 1 /\ Cardinality(ItemRows) = 1
  /\ Len(data.line_items) = 2

\* C10: the handle parse() opens is closed on every way out of the call: a
\* handle is open only while the call is in its loop over the pages, and none
\* is open once the call has returned or raised.
C10_HandleReleased == handles = IF pc = "pages" THEN 1 ELSE 0

\* a page could not be read on a later page, and the handle is closed
C10_Witness == pc = "raised" /\ error = "extract" /\ handles = 0 /\ calls = 1

\* C11: parse_pdf deletes the temporary file on success and on failure: for a
\* request that got as far as saving the upload, the file does not exist when
\* the handler has returned its response, also when the save itself failed
\* part-way.  A file that os.remove refused to delete is not counted.
C11_TempFileDeleted ==
  (pc = "returned" /\ request = "pdf") => tmp \in {"absent", "kept"}

\* the kinds of line items
Kinds == {"storage", "reception", "shipment", "reception_operation", "table_item"}

\* what C12 says of one item
WellFormedItem(item) ==
  /\ item.type \in Kinds
  /\ item.total_amount.m >= 0
  /\ item.type \in {"shipment", "reception_operation"} => item.total_amount = Zero
  /\ item.type = "table_item" => (item.total_amount.m > 0 /\ Len(item.description) > 0)

\* C12: every line item, in self.data at any time and in every result that
\* parse() returned, has one of the five kinds and an amount of at least 0; a
\* shipment and a reception_operation have the amount 0, a table_item has an
\* amount above 0 and a description that is not empty.
C12_ItemsWellFormed ==
  /\ \A a \in 1..Len(data.line_items) : WellFormedItem(data.line_items[a])
  /\ \A c \in 1..Len(returned) :
       \A a \in 1..Len(returned[c].line_items) : WellFormedItem(returned[c].line_items[a])

\* a result with a table_item and a shipment
C12_Witness ==
  /\ pc = "done" /\ Len(returned) = 1
  /\ \E a, b \in 1..Len(returned[1].line_items) :
       /\ returned[1].line_items[a].type = "table_item"
       /\ returned[1].line_items[b].type = "shipment"

\* row r comes before row q: by page, then table, then place in the table
RowBefore(r, q) ==
  \/ r[1] < q[1]
  \/ r[1] = q[1] /\ r[2] < q[2]
  \/ r[1] = q[1] /\ r[2] = q[2] /\ r[3] <= q[3]

\* the table_items of the rows of S, in the order of the rows
RECURSIVE TableItemsInOrder(_)
TableItemsInOrder(S) ==
  IF S = {} THEN <<>>
  ELSE LET r == CHOOSE r \in S : \A q \in S : RowBefore(r, q)
       IN RowItems(RowAt(r)) \o TableItemsInOrder(S \ {r})

\* the text-mode items of the lines, in the order of the lines
RECURSIVE TextItemsInOrder(_)
TextItemsInOrder(lines) ==
  IF Len(lines) = 0 THEN <<>>
  ELSE LineItemsLine(Head(lines)).items \o TextItemsInOrder(Tail(lines))

\* C13: after one parse() of a fresh parser every table_item comes before
\* every text-mode item, whatever their pages; the table_items are in the
\* order of page, table and row, and the text-mode items in the order of their
\* lines in the text of the pages put together.
C13_TablesThenText ==
  (pc = "done" /\ calls = 1) =>
    data.line_items = TableItemsInOrder(DocRows) \o TextItemsInOrder(DocLines)

\* a line of page 1 and a row of page 2: the item of the row comes first
C13_Witness ==
  /\ pc = "done" /\ calls = 1
  /\ Len(doc) = 2
  /\ Len(doc[1].tables) = 0 /\ Len(doc[2].text) = 0
  /\ Len(data.line_items) = 2
  /\ data.line_items[1].type = "table_item"
  /\ data.line_items[2].type # "table_item"

====
